---- MODULE Spec2Model ----
(***************************************************************************)
(* The eBird importer (ebird_data_parse.py) as a state machine.            *)
(*                                                                         *)
(* One process invocation (__main__) is one run of parse_ebird_dump over   *)
(* the dump `file`, starting at `start_row`, against the store.  The store *)
(* is seen twice: `db` is what has been committed, `tx` is what the        *)
(* session's open transaction sees (db plus everything flushed since the   *)
(* last commit).  get_or_create flushes on leaving its begin_nested()      *)
(* block, so a record it creates is in `tx` at once and in `db` only after *)
(* the next DBSession.commit().  An exception that leaves the process      *)
(* without a commit discards the open transaction.                         *)
(*                                                                         *)
(* Abstractions: attributes that are only copied from the input to a       *)
(* record are left out, except one per record type; the store enforces     *)
(* primary keys and unique columns at flush, and the deferred foreign keys *)
(* of models.py are not enforced at commit.                                *)
(***************************************************************************)
EXTENDS Integers, Sequences, FiniteSets, TLC

\* ------------------------------------------------------------------ bounds

\* Longest dump file of the two-run and the place specifications; the
\* one-run specification reads files one row longer.
MaxRows == 3

\* Longest dump file of the taxon specification.
MaxTaxonRows == 1

\* COMMIT_BATCH of the source (1000), scaled down so that batches happen.
COMMIT_BATCH == 3

\* Longest taxonomy file parsed on its own.
MaxTaxa == 2

\* Longest dump file of the specification of files that lack a column.
MaxColumnRows == 2

\* ------------------------------------------------------------------ store

\* Python's None, SQL NULL.
None == "None"

\* A local that holds no instance yet.
NoInstance == [none |-> TRUE]

\* The empty keyword dictionary.
NoDefaults == [k \in {} |-> None]

Models == {"country", "county", "locality", "observer", "species",
           "stateprovince", "location", "subspecies", "checklist", "observation"}

\* The tables after database_setup.create_tables.
EmptyStore == [m \in Models |-> {}]

\* Primary-key and unique columns of each model (the server-assigned
\* location.id is unique by construction).
UniqueCols ==
    [m \in Models |->
        CASE m = "country" -> {"country_code", "country"}
          [] m = "county" -> {"county_code"}
          [] m = "locality" -> {"locality_id"}
          [] m = "observer" -> {"observer_id"}
          [] m = "species" -> {"scientific_name"}
          [] m = "stateprovince" -> {"state_code"}
          [] m = "location" -> {"id"}
          [] m = "subspecies" -> {"scientific_name"}
          [] m = "checklist" -> {"checklist"}
          [] m = "observation" -> {"observation"}]

\* session.query(model).filter_by(**kwargs)
Query(session, model, kwargs) ==
    {r \in session[model] : \A k \in DOMAIN kwargs : r[k] = kwargs[k]}

\* Query.one(): the exception it raises, or "none".
one(q) ==
    IF Cardinality(q) = 1 THEN "none"
    ELSE IF q = {} THEN "NoResultFound" ELSE "MultipleResultsFound"

\* The flush of a new instance violates a primary key or a unique column.
IntegrityError(session, model, instance) ==
    \E c \in UniqueCols[model] : \E r \in session[model] : r[c] = instance[c]

\* dict.update: the entries of `other` replace those of `d`.
update(d, other) == other @@ d

\* A get_or_create that never looks the record up: it goes straight to the
\* insert, and falls back to the query only when the flush fails.
create_without_get(session, seq, model, defaults, kwargs) ==
    LET updated == update(kwargs, defaults)
        seq2 == IF model = "location" THEN seq + 1 ELSE seq
        instance == IF model = "location" THEN [id |-> seq2] @@ updated ELSE updated
        again == Query(session, model, updated)
    IN  IF ~IntegrityError(session, model, instance)
        THEN [instance |-> instance, created |-> TRUE,
              session |-> [session EXCEPT ![model] = @ \cup {instance}],
              seq |-> seq2, exc |-> "none"]
        ELSE IF one(again) = "none"
        THEN [instance |-> CHOOSE r \in again : TRUE, created |-> FALSE,
              session |-> session, seq |-> seq2, exc |-> "none"]
        ELSE [instance |-> NoInstance, created |-> FALSE,
              session |-> session, seq |-> seq2, exc |-> one(again)]

\* A get_or_create that writes the supplied values over the record it finds.
get_or_create_overwriting(session, seq, model, defaults, kwargs) ==
    LET found == Query(session, model, kwargs)
        old == CHOOSE r \in found : TRUE
        new == update(old, update(kwargs, defaults))
    IN  IF one(found) = "none"
        THEN [instance |-> new, created |-> FALSE,
              session |-> [session EXCEPT ![model] = (@ \ {old}) \cup {new}],
              seq |-> seq, exc |-> "none"]
        ELSE create_without_get(session, seq, model, defaults, kwargs)

\* get_or_create(session, model, defaults, **kwargs).  `seq` is the sequence
\* behind location.id, which a rolled back insert does not give back.
\* Returns the instance, whether it was created, the session and sequence
\* after the call, and the exception that leaves the call ("none": none).
get_or_create(session, seq, model, defaults, kwargs) ==
    LET found == Query(session, model, kwargs)
        Result(i, c, s, q, e) ==
            [instance |-> i, created |-> c, session |-> s, seq |-> q, exc |-> e]
    IN  IF one(found) = "none"
        THEN Result(CHOOSE r \in found : TRUE, FALSE, session, seq, "none")
        ELSE IF one(found) = "MultipleResultsFound"
        THEN Result(NoInstance, FALSE, session, seq, "MultipleResultsFound")
        ELSE LET updated == update(kwargs, defaults)
                 seq2 == IF model = "location" THEN seq + 1 ELSE seq
                 instance == IF model = "location"
                             THEN [id |-> seq2] @@ updated ELSE updated
             IN  IF IntegrityError(session, model, instance)
                 THEN LET again == Query(session, model, updated)
                      IN  IF one(again) = "none"
                          THEN Result(CHOOSE r \in again : TRUE, FALSE,
                                      session, seq2, "none")
                          ELSE Result(NoInstance, FALSE, session, seq2, one(again))
                 ELSE Result(instance, TRUE,
                             [session EXCEPT ![model] = @ \cup {instance}],
                             seq2, "none")

\* get_or_create beside another writer of the same store, whose records
\* `others` are committed between the query of line 50 and the flush that
\* ends the begin_nested() block of lines 55-59: the query does not see
\* them, the flush and the query of line 61 do.
get_or_create_with_writer(session, others, seq, model, defaults, kwargs) ==
    LET found == Query(session, model, kwargs)
        Result(i, c, s, q, e) ==
            [instance |-> i, created |-> c, session |-> s, seq |-> q, exc |-> e]
    IN  IF one(found) = "none"
        THEN Result(CHOOSE r \in found : TRUE, FALSE, session, seq, "none")
        ELSE IF one(found) = "MultipleResultsFound"
        THEN Result(NoInstance, FALSE, session, seq, "MultipleResultsFound")
        ELSE LET now == [session EXCEPT ![model] = @ \cup others]
                 updated == update(kwargs, defaults)
                 seq2 == IF model = "location" THEN seq + 1 ELSE seq
                 instance == IF model = "location"
                             THEN [id |-> seq2] @@ updated ELSE updated
             IN  IF IntegrityError(now, model, instance)
                 THEN LET again == Query(now, model, updated)
                      IN  IF one(again) = "none"
                          THEN Result(CHOOSE r \in again : TRUE, FALSE,
                                      now, seq2, "none")
                          ELSE Result(NoInstance, FALSE, now, seq2, one(again))
                 ELSE Result(instance, TRUE,
                             [now EXCEPT ![model] = @ \cup {instance}],
                             seq2, "none")

\* ------------------------------------------------------------- lru_cache

\* A functools.lru_cache as the sequence of its entries, least recently
\* used first.
Hit(cache, key) == {i \in 1..Len(cache) : cache[i].key = key}

\* The sequence without its i-th entry.
Without(cache, i) == [j \in 1..(Len(cache) - 1) |->
                         IF j < i THEN cache[j] ELSE cache[j + 1]]

\* The cache after a hit on `key`: the entry becomes the most recent.
Touch(cache, key) ==
    LET i == CHOOSE j \in Hit(cache, key) : TRUE
    IN  Append(Without(cache, i), cache[i])

\* The cache after a miss stored `value` under `key`: the least recently
\* used entry leaves a full cache.
Store(cache, maxsize, key, value) ==
    LET added == Append(cache, [key |-> key, value |-> value])
    IN  IF Len(added) > maxsize THEN Tail(added) ELSE added

\* A stub that does not fall back to the store: on a miss it adds the record
\* its arguments describe, whatever the session holds under that key.
lru_cache_no_fallback(cache, maxsize, key, session, seq, model, defaults, kwargs) ==
    IF Hit(cache, key) # {}
    THEN LET e == cache[CHOOSE j \in Hit(cache, key) : TRUE]
         IN  [result |-> [instance |-> e.value[1], created |-> e.value[2],
                          session |-> session, seq |-> seq, exc |-> "none"],
              cache |-> Touch(cache, key), hit |-> TRUE]
    ELSE LET instance == update(kwargs, defaults)
         IN  [result |-> [instance |-> instance, created |-> TRUE,
                          session |-> [session EXCEPT ![model] = @ \cup {instance}],
                          seq |-> seq, exc |-> "none"],
              cache |-> Store(cache, maxsize, key, <<instance, TRUE>>),
              hit |-> FALSE]

\* A call of an lru_cache-wrapped get_or_create: on a hit the cached result
\* and no store access; on a miss the call, cached unless it raised.
lru_cache_stub(cache, maxsize, key, session, seq, model, defaults, kwargs) ==
    IF Hit(cache, key) # {}
    THEN LET e == cache[CHOOSE j \in Hit(cache, key) : TRUE]
         IN  [result |-> [instance |-> e.value[1], created |-> e.value[2],
                          session |-> session, seq |-> seq, exc |-> "none"],
              cache |-> Touch(cache, key), hit |-> TRUE]
    ELSE LET r == get_or_create(session, seq, model, defaults, kwargs)
         IN  [result |-> r,
              cache |-> IF r.exc = "none"
                        THEN Store(cache, maxsize, key, <<r.instance, r.created>>)
                        ELSE cache,
              hit |-> FALSE]

\* --------------------------------------------------------------- taxonomy

\* A Python dict as the sequence of its items in insertion order.
DictKeys(d) == {d[i].key : i \in 1..Len(d)}

DictGet(d, k) == d[CHOOSE i \in 1..Len(d) : d[i].key = k].value

\* d[k] = v: a new key is appended, an old key keeps its place.
DictSet(d, k, v) ==
    IF k \in DictKeys(d)
    THEN [i \in 1..Len(d) |-> IF d[i].key = k THEN [key |-> k, value |-> v] ELSE d[i]]
    ELSE Append(d, [key |-> k, value |-> v])

\* The loop of parse_ebird_taxonomy from row i on.  A REPORT_AS that is not
\* yet in species_codes raises KeyError.
RECURSIVE taxonomy_rows(_, _, _, _, _)
taxonomy_rows(rows, i, species, subspecies, species_codes) ==
    IF i > Len(rows)
    THEN [exc |-> "none", species |-> species, subspecies |-> subspecies]
    ELSE LET row == rows[i]
             codes == DictSet(species_codes, row.SPECIES_CODE,
                              <<row.SCI_NAME, row.TAXON_ORDER>>)
         IN  IF row.REPORT_AS # "" /\ row.REPORT_AS \notin DictKeys(codes)
             THEN [exc |-> "KeyError", species |-> species, subspecies |-> subspecies]
             ELSE LET parent_scientific_name ==
                          IF row.REPORT_AS # ""
                          THEN DictGet(codes, row.REPORT_AS)[1] ELSE None
                  IN  IF row.CATEGORY = "species"
                      THEN taxonomy_rows(rows, i + 1,
                               DictSet(species, row.TAXON_ORDER,
                                   [scientific_name |-> row.SCI_NAME,
                                    species_code |-> row.SPECIES_CODE]),
                               subspecies, codes)
                      ELSE taxonomy_rows(rows, i + 1, species,
                               DictSet(subspecies, row.TAXON_ORDER,
                                   [scientific_name |-> row.SCI_NAME,
                                    category |-> row.CATEGORY,
                                    parent_scientific_name |-> parent_scientific_name,
                                    subspecies_code |-> row.SPECIES_CODE]),
                               codes)

parse_ebird_taxonomy(rows) == taxonomy_rows(rows, 1, <<>>, <<>>, <<>>)

\* The category numbers of parsed_taxa_csv_to_db.
cat == [c \in {"issf", "form", "domestic", "slash", "intergrade", "spuh", "hybrid"} |->
          CASE c = "issf" -> 0 [] c = "form" -> 1 [] c = "domestic" -> 2
            [] c = "slash" -> 3 [] c = "intergrade" -> 4 [] c = "spuh" -> 5
            [] c = "hybrid" -> 6]

\* The first loop of parsed_taxa_csv_to_db from item i on.
RECURSIVE species_to_db(_, _, _)
species_to_db(species, i, session) ==
    IF i > Len(species) THEN session
    ELSE LET v == species[i].value
             r == get_or_create(session, 0, "species",
                      [taxonomic_order |-> species[i].key,
                       species_code |-> v.species_code],
                      [scientific_name |-> v.scientific_name])
         IN  species_to_db(species, i + 1, r.session)

\* The second loop of parsed_taxa_csv_to_db from item i on: a category
\* outside `cat` raises KeyError.
RECURSIVE subspecies_to_db(_, _, _)
subspecies_to_db(subspecies, i, session) ==
    IF i > Len(subspecies) THEN [session |-> session, exc |-> "none"]
    ELSE LET v == subspecies[i].value
         IN  IF v.category \notin DOMAIN cat
             THEN [session |-> session, exc |-> "KeyError"]
             ELSE LET r == get_or_create(session, 0, "subspecies",
                               [taxonomic_order |-> subspecies[i].key,
                                parent_species_id |-> v.parent_scientific_name,
                                category |-> cat[v.category],
                                subspecies_code |-> v.subspecies_code],
                               [scientific_name |-> v.scientific_name])
                  IN  subspecies_to_db(subspecies, i + 1, r.session)

\* parsed_taxa_csv_to_db: the session and the committed store after it, and
\* the exception that leaves it.  Species are committed before the
\* subspecies loop starts.
parsed_taxa_csv_to_db(session, committed, rows) ==
    LET parsed == parse_ebird_taxonomy(rows)
    IN  IF parsed.exc # "none"
        THEN [session |-> session, committed |-> committed, exc |-> parsed.exc]
        ELSE LET s1 == species_to_db(parsed.species, 1, session)
                 s2 == subspecies_to_db(parsed.subspecies, 1, s1)
             IN  IF s2.exc # "none"
                 THEN [session |-> s2.session, committed |-> s1, exc |-> s2.exc]
                 ELSE [session |-> s2.session, committed |-> s2.session, exc |-> "none"]

\* ------------------------------------------------------------ field codec

\* protocol_words_to_code's table.
conversion ==
    [p \in {"Incidental", "Stationary", "Traveling", "Area", "Trail Tracker",
            "Banding", "Waterbird Count", "RMBO Early Winter Waterbird Count",
            "My Yard Counts", "LoonWatch", "Standardized Yard Count",
            "Rusty Blackbird Spring Migration Blitz",
            "Yellow-billed Magpie Survey - General Observations",
            "Yellow-billed Magpie Survey - Traveling Count", "CWC Point Count",
            "CWC Area Search", "Random", "Coastal Shorebird Survey",
            "Caribbean Martin Survey", "Greater Gulf Refuge Waterbird Count",
            "Oiled Birds", "Nocturnal Flight Call Count", "Heron Stationary Count*",
            "Heron Area Count", "Great Texas Birding Classic",
            "Audubon Coastal Bird Survey", "TNC California Waterbird Count",
            "eBird Pelagic Protocol", "IBA Canada (protocol)", "Historical",
            "Traveling - Property Specific", "Breeding Bird Atlas",
            "Birds 'n' Bogs Survey", "CAC--Common Bird Survey",
            "RAM--Iberian Seawatch Network", "California Brown Pelican Survey",
            "BirdLife Australia 20min-2ha survey",
            "BirdLife Australia 500m radius search",
            "BirdLife Australia 5 km radius search", "PROALAS",
            "International Shorebird Survey (ISS)",
            "Tricolored Blackbird Winter Survey"} |->
        CASE p = "Incidental" -> "20" [] p = "Stationary" -> "21"
          [] p = "Traveling" -> "22" [] p = "Area" -> "23"
          [] p = "Trail Tracker" -> "30" [] p = "Banding" -> "33"
          [] p = "Waterbird Count" -> "34"
          [] p = "RMBO Early Winter Waterbird Count" -> "34"
          [] p = "My Yard Counts" -> "35" [] p = "LoonWatch" -> "39"
          [] p = "Standardized Yard Count" -> "40"
          [] p = "Rusty Blackbird Spring Migration Blitz" -> "41"
          [] p = "Yellow-billed Magpie Survey - General Observations" -> "44"
          [] p = "Yellow-billed Magpie Survey - Traveling Count" -> "45"
          [] p = "CWC Point Count" -> "46" [] p = "CWC Area Search" -> "47"
          [] p = "Random" -> "48" [] p = "Coastal Shorebird Survey" -> "49"
          [] p = "Caribbean Martin Survey" -> "50"
          [] p = "Greater Gulf Refuge Waterbird Count" -> "51"
          [] p = "Oiled Birds" -> "52" [] p = "Nocturnal Flight Call Count" -> "54"
          [] p = "Heron Stationary Count*" -> "55" [] p = "Heron Area Count" -> "56"
          [] p = "Great Texas Birding Classic" -> "57"
          [] p = "Audubon Coastal Bird Survey" -> "58"
          [] p = "TNC California Waterbird Count" -> "59"
          [] p = "eBird Pelagic Protocol" -> "60"
          [] p = "IBA Canada (protocol)" -> "61" [] p = "Historical" -> "62"
          [] p = "Traveling - Property Specific" -> "64"
          [] p = "Breeding Bird Atlas" -> "65" [] p = "Birds 'n' Bogs Survey" -> "66"
          [] p = "CAC--Common Bird Survey" -> "67"
          [] p = "RAM--Iberian Seawatch Network" -> "68"
          [] p = "California Brown Pelican Survey" -> "69"
          [] p = "BirdLife Australia 20min-2ha survey" -> "70"
          [] p = "BirdLife Australia 500m radius search" -> "71"
          [] p = "BirdLife Australia 5 km radius search" -> "72"
          [] p = "PROALAS" -> "73"
          [] p = "International Shorebird Survey (ISS)" -> "74"
          [] p = "Tricolored Blackbird Winter Survey" -> "75"]

\* A lookup with conversion.get(protocol): no code for an unknown name.
protocol_words_to_code_or_none(protocol) ==
    IF protocol \in DOMAIN conversion
    THEN [exc |-> "none", code |-> conversion[protocol]]
    ELSE [exc |-> "none", code |-> None]

\* protocol_words_to_code: the code, or the KeyError of the table lookup.
protocol_words_to_code(protocol) ==
    IF protocol \in DOMAIN conversion
    THEN [exc |-> "none", code |-> conversion[protocol]]
    ELSE [exc |-> "KeyError", code |-> None]

\* bool(int(field)) of a "0"/"1" column: anything else is int()'s ValueError.
bool_int(field) ==
    IF field \in {"0", "1"}
    THEN [exc |-> "none", value |-> (field = "1")]
    ELSE [exc |-> "ValueError", value |-> FALSE]

\* ------------------------------------------------------------ text fields

\* Where a function is modelled character by character, a str is the
\* sequence of its characters, and a None that stands beside a record is
\* NoInstance.
Digits == <<"0", "1", "2", "3", "4", "5", "6", "7", "8", "9">>

DigitValue(c) == (CHOOSE d \in 1..10 : Digits[d] = c) - 1

IsDigit(c) == \E d \in 1..10 : Digits[d] = c

\* The number a string of digits writes in base ten.
RECURSIVE BaseTen(_)
BaseTen(str) ==
    IF str = <<>> THEN 0
    ELSE 10 * BaseTen(SubSeq(str, 1, Len(str) - 1)) + DigitValue(str[Len(str)])

\* int(str) for a string without sign, blanks or underscores: ValueError
\* for the empty string and for any character that is not a digit.
int(str) ==
    IF str # <<>> /\ \A i \in 1..Len(str) : IsDigit(str[i])
    THEN [exc |-> "none", value |-> BaseTen(str)]
    ELSE [exc |-> "ValueError", value |-> 0]

\* str.split(sep) and re.split('[seps]', str) from character i on: `cur` is
\* the piece being read, `acc` the pieces read.
RECURSIVE split_from(_, _, _, _, _)
split_from(str, i, seps, cur, acc) ==
    IF i > Len(str) THEN Append(acc, cur)
    ELSE IF str[i] \in seps THEN split_from(str, i + 1, seps, <<>>, Append(acc, cur))
    ELSE split_from(str, i + 1, seps, Append(cur, str[i]), acc)

split(str, seps) == split_from(str, 1, seps, <<>>, <<>>)

\* a, b, c = [int(x) for x in pieces]: ValueError from int() or from
\* unpacking other than three values.
three_ints(pieces) ==
    IF \E i \in 1..Len(pieces) : int(pieces[i]).exc # "none"
    THEN [exc |-> "ValueError", values |-> <<>>]
    ELSE IF Len(pieces) # 3 THEN [exc |-> "ValueError", values |-> <<>>]
    ELSE [exc |-> "none", values |-> [i \in 1..3 |-> int(pieces[i]).value]]

\* parse_date: the three numbers of the string, in the order written, as
\* (year, month, day).
parse_date(date_str) ==
    LET t == three_ints(split(date_str, {"/", "-"}))
    IN  IF t.exc # "none" THEN [exc |-> t.exc, year |-> 0, month |-> 0, day |-> 0]
        ELSE [exc |-> "none", year |-> t.values[1], month |-> t.values[2],
              day |-> t.values[3]]

\* parse_time: (hours, minutes, seconds).
parse_time(time_str) ==
    LET t == three_ints(split(time_str, {":"}))
    IN  IF t.exc # "none" THEN [exc |-> t.exc, h |-> 0, m |-> 0, s |-> 0]
        ELSE [exc |-> "none", h |-> t.values[1], m |-> t.values[2], s |-> t.values[3]]

DaysInMonth(year, month) ==
    IF month = 2
    THEN IF year % 4 = 0 /\ (year % 100 # 0 \/ year % 400 = 0) THEN 29 ELSE 28
    ELSE IF month \in {4, 6, 9, 11} THEN 30 ELSE 31

\* datetime(year, month, day, hour, minute, second, 0): ValueError for a
\* field out of its range.
datetime(year, month, day, hour, minute, second) ==
    IF /\ year \in 1..9999 /\ month \in 1..12
       /\ day >= 1 /\ day <= DaysInMonth(year, month)
       /\ hour \in 0..23 /\ minute \in 0..59 /\ second \in 0..59
    THEN [exc |-> "none",
          value |-> [year |-> year, month |-> month, day |-> day,
                     hour |-> hour, minute |-> minute, second |-> second]]
    ELSE [exc |-> "ValueError", value |-> NoInstance]

\* timedelta(minutes=m), as its seconds.
timedelta(minutes) == [seconds |-> 60 * minutes]

\* parse_start_duration: the duration is converted first, then the start.
parse_start_duration(checklist_date, checklist_time, checklist_duration) ==
    LET Raise(e) == [exc |-> e, start |-> NoInstance, duration |-> NoInstance]
        duration_mins == int(checklist_duration)
        duration == IF checklist_duration = <<>> THEN NoInstance
                    ELSE timedelta(duration_mins.value)
        d == parse_date(checklist_date)
        t == parse_time(checklist_time)
        midnight == datetime(d.year, d.month, d.day, 0, 0, 0)
        moment == datetime(d.year, d.month, d.day, t.h, t.m, t.s)
    IN  IF checklist_duration # <<>> /\ duration_mins.exc # "none"
        THEN Raise(duration_mins.exc)
        ELSE IF checklist_date = <<>> /\ checklist_time = <<>>
        THEN [exc |-> "none", start |-> NoInstance, duration |-> duration]
        ELSE IF d.exc # "none" THEN Raise(d.exc)
        ELSE IF checklist_time = <<>>
        THEN IF midnight.exc # "none" THEN Raise(midnight.exc)
             ELSE [exc |-> "none", start |-> midnight.value, duration |-> duration]
        ELSE IF t.exc # "none" THEN Raise(t.exc)
        ELSE IF moment.exc # "none" THEN Raise(moment.exc)
        ELSE [exc |-> "none", start |-> moment.value, duration |-> duration]

\* str[n:]
str_from_keeping_one(str, n) == SubSeq(str, n, Len(str))

str_from(str, n) == SubSeq(str, n + 1, Len(str))

\* int_or_none: None for the empty string, here NoInstance beside [int |-> i].
int_or_none(i) ==
    IF i = <<>> THEN [exc |-> "none", value |-> NoInstance]
    ELSE IF int(i).exc # "none" THEN [exc |-> int(i).exc, value |-> NoInstance]
    ELSE [exc |-> "none", value |-> [int |-> int(i).value]]

\* Lines 165, 167, 208, 216 and 224: the ids of a row, in the order the
\* lines convert them; the first int() that fails raises.
row_ids(guid, sampling, group, observer, locality) ==
    LET pieces == split(guid, {":"})
        observation_id == int(str_from(pieces[Len(pieces)], 3))
        checklist_id == int(str_from(sampling, 1))
        group_id == int_or_none(str_from(group, 1))
        observer_id == int(str_from(observer, 4))
        locality_id == int(str_from(locality, 1))
        failed == {e \in {observation_id.exc, checklist_id.exc, group_id.exc,
                          observer_id.exc, locality_id.exc} : e # "none"}
    IN  IF failed # {}
        THEN [exc |-> CHOOSE e \in failed : TRUE]
        ELSE [exc |-> "none", observation_id |-> observation_id.value,
              checklist_id |-> checklist_id.value, group_id |-> group_id.value,
              observer_id |-> observer_id.value, locality_id |-> locality_id.value]

\* The remapping with 'hybrid' left out of the tuple of line 190.
category_remap_no_hybrid(species_category, scientific_name, subspecies_scientific_name, subspecies_sci_names) ==
    LET sub == IF subspecies_scientific_name = "" THEN None
               ELSE subspecies_scientific_name
    IN  IF species_category \in {"spuh", "slash"}
        THEN [species_id |-> None, subspecies_id |-> scientific_name]
        ELSE IF species_category \in {"domestic", "form"}
                /\ scientific_name \in subspecies_sci_names
        THEN [species_id |-> None, subspecies_id |-> sub]
        ELSE [species_id |-> scientific_name, subspecies_id |-> sub]

\* Lines 180-196 of parse_ebird_dump: the species and subspecies references
\* an Observation is given, from the row's CATEGORY, SCIENTIFIC NAME and
\* SUBSPECIES SCIENTIFIC NAME and the SubSpecies names read at the start.
category_remap(species_category, scientific_name, subspecies_scientific_name, subspecies_sci_names) ==
    LET sub == IF subspecies_scientific_name = "" THEN None
               ELSE subspecies_scientific_name
    IN  IF species_category \in {"spuh", "slash", "hybrid"}
        THEN [species_id |-> None, subspecies_id |-> scientific_name]
        ELSE IF species_category \in {"domestic", "form"}
                /\ scientific_name \in subspecies_sci_names
        THEN [species_id |-> None, subspecies_id |-> sub]
        ELSE [species_id |-> scientific_name, subspecies_id |-> sub]

\* ------------------------------------------------------------------- state

VARIABLES
    taxa_csv,              \* the rows of the taxonomy CSV (<<>>: none given)
    file,                  \* the rows of the observation dump
    maxsize,               \* capacity of the lru_cache stubs
    start_row,             \* parse_ebird_dump's start_row
    db,                    \* the committed store
    tx,                    \* the store as the session's open transaction sees it
    seq,                   \* the sequence behind location.id
    pc,                    \* where parse_ebird_dump stands
    count,                 \* rows read so far
    exc,                   \* the exception being handled or propagated
    country_code_cache,
    state_cache, county_cache, locality_cache, observer_cache,
    species_sci_names, subspecies_sci_names,
    fields,                \* the locals lines 165-237 set from the row
    obs, loc, check,       \* the instances the row resolved
    printed,               \* the row counts the run has printed, in order
    staged,                \* rows this run has processed to line 290
    interrupted,           \* where this run got its KeyboardInterrupt
    created_by,            \* observation id -> the row that created the record
    runs,                  \* the runs that have ended, oldest first
    call,                  \* a function called on its own, with its arguments
    ret                    \* what that call returned or raised

vars == <<taxa_csv, file, maxsize, start_row, db, tx, seq, pc, count, exc,
          country_code_cache, state_cache, county_cache, locality_cache,
          observer_cache, species_sci_names, subspecies_sci_names, fields,
          obs, loc, check, printed, staged, interrupted, created_by, runs,
          call, ret>>

\* What parse_ebird_dump reads and writes, as one record.
State ==
    [start_row |-> start_row, db |-> db, tx |-> tx, seq |-> seq, pc |-> pc,
     count |-> count, exc |-> exc, country_code_cache |-> country_code_cache,
     state_cache |-> state_cache, county_cache |-> county_cache,
     locality_cache |-> locality_cache, observer_cache |-> observer_cache,
     species_sci_names |-> species_sci_names,
     subspecies_sci_names |-> subspecies_sci_names, fields |-> fields,
     obs |-> obs, loc |-> loc, check |-> check, printed |-> printed]

\* A process that has just been started on the store `store` with the
\* sequence at `q`: nothing cached, nothing read.
NewProcess(store, q, start) ==
    [start_row |-> start, db |-> store, tx |-> store, seq |-> q, pc |-> "start",
     count |-> 0, exc |-> "none", country_code_cache |-> NoDefaults,
     state_cache |-> <<>>, county_cache |-> <<>>, locality_cache |-> <<>>,
     observer_cache |-> <<>>, species_sci_names |-> {},
     subspecies_sci_names |-> {}, fields |-> NoInstance,
     obs |-> NoInstance, loc |-> NoInstance, check |-> NoInstance,
     printed |-> <<>>]

\* print() of a line that carries the row count.
print_count(s, line) ==
    [s EXCEPT !.printed = Append(@, [line |-> line, count |-> s.count])]

\* DBSession.commit()
commit(s) == [s EXCEPT !.db = s.tx]

\* An exception leaves parse_ebird_dump: the process ends and the open
\* transaction is lost.
propagate(s, e) == [s EXCEPT !.pc = "exit", !.exc = e, !.tx = s.db]

\* An exception is raised inside the try block: control goes to the first
\* except clause that matches it.
raise(s, e) ==
    [s EXCEPT !.exc = e,
              !.pc = IF e = "KeyError" THEN "except_KeyError"
                     ELSE IF e = "KeyboardInterrupt" THEN "except_KeyboardInterrupt"
                     ELSE "except_Exception"]

\* Lines 138-148: the taxonomy is loaded when its path is given, then the
\* known names are read.
begin(s, taxa) ==
    LET t == IF taxa # <<>> THEN parsed_taxa_csv_to_db(s.tx, s.db, taxa)
             ELSE [session |-> s.tx, committed |-> s.db, exc |-> "none"]
    IN  IF t.exc # "none"
        THEN propagate([s EXCEPT !.db = t.committed], t.exc)
        ELSE [s EXCEPT !.tx = t.session, !.db = t.committed, !.pc = "for",
                       !.species_sci_names =
                           {x.scientific_name : x \in t.session["species"]},
                       !.subspecies_sci_names =
                           {x.scientific_name : x \in t.session["subspecies"]}]

\* A loop without the test of line 160: every row is processed.
next_row_no_skip(s, rows) ==
    IF s.count >= Len(rows) THEN [s EXCEPT !.pc = "final"]
    ELSE [s EXCEPT !.pc = "transform"]

\* Lines 158-162: the next row of the reader, skipped when its index is
\* below start_row; the loop ends with the file.
next_row(s, rows) ==
    IF s.count >= Len(rows) THEN [s EXCEPT !.pc = "final"]
    ELSE IF s.count < s.start_row THEN [s EXCEPT !.count = s.count + 1]
    ELSE [s EXCEPT !.pc = "transform"]

\* The columns of the dump that the model carries, in the order lines
\* 165-231 read them; `approved` is converted where it is read (line 209),
\* the protocol on the line after it is read (line 213).
Columns ==
    <<"observation_id", "checklist_id", "species_category", "scientific_name",
      "subspecies_scientific_name", "approved", "protocol", "observer_id",
      "coords", "locality_name", "locality_id", "locality_type", "state_code",
      "county_code", "county", "state_province", "country", "country_code">>

\* row[column] raises KeyError for one of the first n columns: the reader
\* gives a row no key for a column the header lacks.
KeyErrorIn(row, n) == \E i \in 1..n : Columns[i] \notin DOMAIN row

\* Lines 163-237: the row's fields.  The first failing line raises.
transform(s, rows) ==
    LET row == rows[s.count + 1]
        taxon == category_remap(row.species_category, row.scientific_name,
                                row.subspecies_scientific_name,
                                s.subspecies_sci_names)
        approved == bool_int(row.approved)
        proto == protocol_words_to_code(row.protocol)
    IN  IF KeyErrorIn(row, 6) THEN raise(s, "KeyError")
        ELSE IF approved.exc # "none" THEN raise(s, approved.exc)
        ELSE IF KeyErrorIn(row, 7) THEN raise(s, "KeyError")
        ELSE IF proto.exc # "none" THEN raise(s, proto.exc)
        ELSE IF KeyErrorIn(row, Len(Columns)) THEN raise(s, "KeyError")
        ELSE [s EXCEPT !.pc = "state",
                       !.fields = [observation_id |-> row.observation_id,
                                   checklist_id |-> row.checklist_id,
                                   scientific_name |-> taxon.species_id,
                                   subspecies_scientific_name |-> taxon.subspecies_id,
                                   approved |-> approved.value,
                                   proto |-> proto.code,
                                   observer_id |-> row.observer_id,
                                   coords |-> row.coords,
                                   locality_name |-> row.locality_name,
                                   locality_id |-> row.locality_id,
                                   locality_type |-> row.locality_type,
                                   state_code |-> row.state_code,
                                   county_code |-> row.county_code,
                                   county |-> row.county,
                                   state_province |-> row.state_province,
                                   country |-> row.country,
                                   country_code |-> row.country_code]]

\* The state after a resolution that returned `r`: the session and the
\* sequence it left, and the next line or the except clause.
resolved(s, r, next) ==
    IF r.exc # "none"
    THEN raise([s EXCEPT !.tx = r.session, !.seq = r.seq], r.exc)
    ELSE [s EXCEPT !.tx = r.session, !.seq = r.seq, !.pc = next]

\* Line 240: state_lru_cache_stub(state_province, state_code)
resolve_state(s, cap) ==
    LET f == s.fields
        c == lru_cache_stub(s.state_cache, cap, <<f.state_province, f.state_code>>,
                 s.tx, s.seq, "stateprovince",
                 [state_province |-> f.state_province], [state_code |-> f.state_code])
    IN  [resolved(s, c.result, "county") EXCEPT !.state_cache = c.cache]

\* Line 242: county_lru_cache_stub(county, county_code)
resolve_county(s, cap) ==
    LET f == s.fields
        c == lru_cache_stub(s.county_cache, cap, <<f.county, f.county_code>>,
                 s.tx, s.seq, "county",
                 [county |-> f.county], [county_code |-> f.county_code])
    IN  [resolved(s, c.result, "locality") EXCEPT !.county_cache = c.cache]

\* Line 244: locality_lru_cache_stub(locality_id, locality_type, locality_name)
resolve_locality(s, cap) ==
    LET f == s.fields
        c == lru_cache_stub(s.locality_cache, cap,
                 <<f.locality_id, f.locality_type, f.locality_name>>,
                 s.tx, s.seq, "locality",
                 [locality_type |-> f.locality_type, locality_name |-> f.locality_name],
                 [locality_id |-> f.locality_id])
    IN  [resolved(s, c.result, "country") EXCEPT !.locality_cache = c.cache]

\* A create_or_cache that takes val for the primary key without calling fn.
create_or_cache_no_create(cache, session, q, model, defaults, kwargs, val) ==
    [result |-> [instance |-> NoInstance, created |-> FALSE,
                 session |-> session, seq |-> q, exc |-> "none"],
     cache |-> (val :> val) @@ cache]

\* create_or_cache(cache, fn, kwargs, val) with fn = get_or_create: the
\* primary key from the cache, or from the record got or created.
create_or_cache(cache, session, q, model, defaults, kwargs, val) ==
    IF val \in DOMAIN cache
    THEN [result |-> [instance |-> NoInstance, created |-> FALSE,
                      session |-> session, seq |-> q, exc |-> "none"],
          cache |-> cache]
    ELSE LET r == get_or_create(session, q, model, defaults, kwargs)
             pk_attr == CHOOSE k \in DOMAIN kwargs : TRUE
         IN  [result |-> r,
              cache |-> IF r.exc = "none"
                        THEN (val :> r.instance[pk_attr]) @@ cache ELSE cache]

\* Lines 246-248: the country, through country_code_cache.
resolve_country(s) ==
    LET f == s.fields
        c == create_or_cache(s.country_code_cache, s.tx, s.seq, "country",
                 [country |-> f.country], [country_code |-> f.country_code],
                 f.country_code)
    IN  [resolved(s, c.result, "observer") EXCEPT !.country_code_cache = c.cache]

\* Lines 250-253: observer_lru_cache_stub(observer_id)
resolve_observer(s, cap) ==
    LET f == s.fields
        c == lru_cache_stub(s.observer_cache, cap, <<f.observer_id>>,
                 s.tx, s.seq, "observer", NoDefaults, [observer_id |-> f.observer_id])
        t == resolved(s, c.result, "location")
    IN  [t EXCEPT !.observer_cache = c.cache,
                  !.obs = IF c.result.exc = "none" THEN c.result.instance ELSE s.obs]

\* Lines 255-257: the Location at the row's coordinates.
get_location(s) ==
    LET f == s.fields
        r == get_or_create(s.tx, s.seq, "location",
                 [locality_id |-> f.locality_id, country_id |-> f.country_code,
                  state_province_id |-> f.state_code, county_id |-> f.county_code],
                 [coords |-> f.coords])
    IN  [resolved(s, r, "checklist") EXCEPT
            !.loc = IF r.exc = "none" THEN r.instance ELSE s.loc]

\* Lines 259-270: the Checklist of the row's sampling event.
get_checklist(s) ==
    LET f == s.fields
        r == get_or_create(s.tx, s.seq, "checklist",
                 [location_id |-> s.loc.id, approved |-> f.approved,
                  protocol |-> f.proto],
                 [checklist |-> f.checklist_id])
    IN  [resolved(s, r, "observation") EXCEPT
            !.check = IF r.exc = "none" THEN r.instance ELSE s.check]

\* Lines 273-288: the Observation.
get_observation(s) ==
    LET f == s.fields
        r == get_or_create(s.tx, s.seq, "observation",
                 [species_id |-> f.scientific_name,
                  subspecies_id |-> f.subspecies_scientific_name,
                  checklist_id |-> s.check.checklist,
                  observer_id |-> s.obs.observer_id],
                 [observation |-> f.observation_id])
    IN  resolved(s, r, "count")

\* The row counted, with a commit every COMMIT_BATCH + 1 rows.
count_row_late(s) ==
    LET n == s.count + 1
        t == [s EXCEPT !.count = n, !.pc = "for"]
    IN  IF n % (COMMIT_BATCH + 1) = 0 THEN print_count(commit(t), "Commit") ELSE t

\* Lines 290-298: the row is counted, and every COMMIT_BATCH rows committed.
count_row(s) ==
    LET n == s.count + 1
        t == [s EXCEPT !.count = n, !.pc = "for"]
    IN  IF n % COMMIT_BATCH = 0 THEN print_count(commit(t), "Commit") ELSE t

\* Lines 299-302: except KeyError re-raises.
except_KeyError(s) == propagate(s, s.exc)

\* A KeyboardInterrupt clause that commits and re-raises, as the clause
\* for Exception does.
reraise_KeyboardInterrupt(s) == propagate(commit(s), s.exc)

\* Lines 303-305: except KeyboardInterrupt commits and falls through.
except_KeyboardInterrupt(s) == [commit(s) EXCEPT !.pc = "final", !.exc = "none"]

\* A clause for Exception that prints and re-raises without a commit.
except_Exception_no_commit(s) == propagate(print_count(s, "Entries"), s.exc)

\* Lines 306-310: except Exception prints the count, commits and re-raises.
except_Exception(s) == propagate(commit(print_count(s, "Entries")), s.exc)

\* An end of run that prints the final count without the commit of line 311.
final_no_commit(s) == [print_count(s, "Final count") EXCEPT !.pc = "exit"]

\* Lines 311-313: the last commit, the final count, and the return.
final(s) == [print_count(commit(s), "Final count") EXCEPT !.pc = "exit"]

\* One step of the process from state s, no interrupt arriving.
Step(s, taxa, rows, cap) ==
    CASE s.pc = "start" -> begin(s, taxa)
      [] s.pc = "for" -> next_row(s, rows)
      [] s.pc = "transform" -> transform(s, rows)
      [] s.pc = "state" -> resolve_state(s, cap)
      [] s.pc = "county" -> resolve_county(s, cap)
      [] s.pc = "locality" -> resolve_locality(s, cap)
      [] s.pc = "country" -> resolve_country(s)
      [] s.pc = "observer" -> resolve_observer(s, cap)
      [] s.pc = "location" -> get_location(s)
      [] s.pc = "checklist" -> get_checklist(s)
      [] s.pc = "observation" -> get_observation(s)
      [] s.pc = "count" -> count_row(s)
      [] s.pc = "except_KeyError" -> except_KeyError(s)
      [] s.pc = "except_KeyboardInterrupt" -> except_KeyboardInterrupt(s)
      [] s.pc = "except_Exception" -> except_Exception(s)
      [] s.pc = "final" -> final(s)
      [] OTHER -> s

\* The process run from state s until it ends, no interrupt arriving.
RECURSIVE Run(_, _, _, _)
Run(s, taxa, rows, cap) ==
    IF s.pc = "exit" THEN s ELSE Run(Step(s, taxa, rows, cap), taxa, rows, cap)

\* ------------------------------------------------------------------ inputs

\* Two places, each with its own state, county, locality, country and
\* observer keys, and two spellings of the names a row carries for them.
Places == {1, 2}
Spellings == {1, 2}
StateCodes == <<"US-NY", "CA-ON">>
StateNames == <<"New York", "Ontario">>
CountyCodes == <<"US-NY-109", "CA-ON-TO">>
CountyNames == <<"Tompkins", "Toronto">>
LocalityNames == <<"Sapsucker Woods", "High Park">>
LocalityTypes == <<"H", "P">>
CountryCodes == <<"US", "CA">>
CountryNames == <<<<"United States", "USA">>, <<"Canada", "United States">>>>
Coords == <<"POINT(-76.45 42.48)", "POINT(-79.46 43.65)">>

\* A dump row.  The place g gives the keys; the spelling n gives the names
\* and the coordinates.
Row(o, category, sci, sub, approved, protocol, g, n) ==
    [observation_id |-> o, checklist_id |-> g, species_category |-> category,
     scientific_name |-> sci, subspecies_scientific_name |-> sub,
     approved |-> approved, protocol |-> protocol,
     observer_id |-> g, coords |-> Coords[n],
     locality_id |-> g, locality_type |-> LocalityTypes[n],
     locality_name |-> LocalityNames[n],
     state_code |-> StateCodes[g], state_province |-> StateNames[n],
     county_code |-> CountyCodes[g], county |-> CountyNames[n],
     country_code |-> CountryCodes[g], country |-> CountryNames[g][n]]

Categories == {"species", "issf", "intergrade", "spuh", "slash", "hybrid",
               "domestic", "form"}

\* Rows that differ in what can fail: two rows that load, at different
\* places; a row whose country name is already stored under another code;
\* rows with an unknown protocol name, a malformed APPROVED, or both.
PlainRows ==
    {Row(o, "species", "Anas acuta", "", "1", "Traveling", o, 1) : o \in {1, 2}}
    \cup {Row(2, "species", "Anas acuta", "", "1", "Traveling", 2, 2)}
    \cup {Row(1, "species", "Anas acuta", "", a, p, 1, 1) :
             a \in {"1", "x"}, p \in {"Traveling", "Nocturnal Walk"}}

\* Rows that differ in the taxon they report.
TaxonRows ==
    {Row(1, c, sci, sub, "1", "Traveling", 1, 1) :
        c \in Categories, sci \in {"", "Anas acuta"},
        sub \in {"", "Anas acuta acuta"}}
    \cup {r \in PlainRows : (r.approved = "x") # (r.protocol \notin DOMAIN conversion)}

\* Rows that differ in the reference records they name.
PlaceRows ==
    {Row(g, "species", "Anas acuta", "", "1", "Traveling", g, n) :
        g \in Places, n \in Spellings}
    \cup {r \in PlainRows : r.approved = "1" /\ r.protocol \notin DOMAIN conversion}

\* Taxonomy rows: TAXON_ORDER, CATEGORY, SCI_NAME, SPECIES_CODE, REPORT_AS.
Taxon(order, category, sci, code, report_as) ==
    [TAXON_ORDER |-> order, CATEGORY |-> category, SCI_NAME |-> sci,
     SPECIES_CODE |-> code, REPORT_AS |-> report_as]

\* Anas acuta is a species, with a subspecies group.
TaxaSpecies ==
    <<Taxon(1, "species", "Anas acuta", "norpin", ""),
      Taxon(2, "issf", "Anas acuta acuta", "norpin1", "norpin")>>

\* Anas acuta is a form, stored as a SubSpecies.
TaxaForm ==
    <<Taxon(1, "form", "Anas acuta", "norpin", ""),
      Taxon(2, "species", "Anas acuta acuta", "norpin1", "")>>

\* The sequences over S of length at most n.
RECURSIVE SeqsUpTo(_, _)
SeqsUpTo(S, n) ==
    IF n = 0 THEN {<<>>}
    ELSE LET shorter == SeqsUpTo(S, n - 1)
         IN  shorter \cup {Append(q, x) : q \in {t \in shorter : Len(t) = n - 1}, x \in S}

\* ----------------------------------------------------------------- actions

\* The variables of the process become the fields of t.
Apply(t) ==
    \E u \in {t} :
        /\ start_row' = u.start_row /\ db' = u.db /\ tx' = u.tx /\ seq' = u.seq
        /\ pc' = u.pc /\ count' = u.count /\ exc' = u.exc
        /\ country_code_cache' = u.country_code_cache
        /\ state_cache' = u.state_cache /\ county_cache' = u.county_cache
        /\ locality_cache' = u.locality_cache /\ observer_cache' = u.observer_cache
        /\ species_sci_names' = u.species_sci_names
        /\ subspecies_sci_names' = u.subspecies_sci_names
        /\ fields' = u.fields /\ obs' = u.obs /\ loc' = u.loc /\ check' = u.check
        /\ printed' = u.printed

\* The variables of the process are the fields of t.
Starts(t) ==
    /\ start_row = t.start_row /\ db = t.db /\ tx = t.tx /\ seq = t.seq
    /\ pc = t.pc /\ count = t.count /\ exc = t.exc
    /\ country_code_cache = t.country_code_cache
    /\ state_cache = t.state_cache /\ county_cache = t.county_cache
    /\ locality_cache = t.locality_cache /\ observer_cache = t.observer_cache
    /\ species_sci_names = t.species_sci_names
    /\ subspecies_sci_names = t.subspecies_sci_names
    /\ fields = t.fields /\ obs = t.obs /\ loc = t.loc /\ check = t.check
    /\ printed = t.printed

\* Where a run got its KeyboardInterrupt: "no", "between rows" (at the for
\* statement) or "within a row".
NotInterrupted == "no"

\* No function is called on its own.
NoCall == [fn |-> "none"]

\* The state before the first run: an empty store, a process just started.
InitWith(taxas, files, sizes) ==
    /\ taxa_csv \in taxas
    /\ file \in files
    /\ maxsize \in sizes
    /\ \E n \in 0..Len(file) : Starts(NewProcess(EmptyStore, 0, n))
    /\ staged = {}
    /\ interrupted = NotInterrupted
    /\ created_by = NoDefaults
    /\ runs = <<>>
    /\ call = NoCall
    /\ ret = NoInstance

Init == InitWith({TaxaSpecies}, SeqsUpTo(PlainRows, MaxRows + 1), {1})

\* Two runs over the rows that load or fail before anything is resolved.
InitRerun ==
    InitWith({TaxaSpecies},
             SeqsUpTo({r \in PlainRows : r.approved = "1"}, MaxRows), {1})

\* Rows that name every place under every spelling, caches of one and two
\* entries.
InitPlaces == InitWith({TaxaSpecies}, SeqsUpTo(PlaceRows, MaxRows), {1, 2})

\* Rows of every category, with and without the two names, against a store
\* with no taxa, with Anas acuta a species, and with Anas acuta a form.
InitTaxon ==
    InitWith({<<>>, TaxaSpecies, TaxaForm}, SeqsUpTo(TaxonRows, MaxTaxonRows), {1})

Inputs == <<taxa_csv, file, maxsize, call, ret>>
History == <<staged, interrupted, created_by, runs>>

Begin ==
    /\ pc = "start"
    /\ Apply(begin(State, taxa_csv))
    /\ UNCHANGED <<Inputs, History>>

EndOfFile ==
    /\ pc = "for" /\ count >= Len(file)
    /\ Apply(next_row(State, file))
    /\ UNCHANGED <<Inputs, History>>

SkipRow ==
    /\ pc = "for" /\ count < Len(file) /\ count < start_row
    /\ Apply(next_row(State, file))
    /\ UNCHANGED <<Inputs, History>>

ReadRow ==
    /\ pc = "for" /\ count < Len(file) /\ count >= start_row
    /\ Apply(next_row(State, file))
    /\ UNCHANGED <<Inputs, History>>

Transform ==
    /\ pc = "transform"
    /\ Apply(transform(State, file))
    /\ UNCHANGED <<Inputs, History>>

ResolveState ==
    /\ pc = "state"
    /\ Apply(resolve_state(State, maxsize))
    /\ UNCHANGED <<Inputs, History>>

ResolveCounty ==
    /\ pc = "county"
    /\ Apply(resolve_county(State, maxsize))
    /\ UNCHANGED <<Inputs, History>>

ResolveLocality ==
    /\ pc = "locality"
    /\ Apply(resolve_locality(State, maxsize))
    /\ UNCHANGED <<Inputs, History>>

ResolveCountry ==
    /\ pc = "country"
    /\ Apply(resolve_country(State))
    /\ UNCHANGED <<Inputs, History>>

ResolveObserver ==
    /\ pc = "observer"
    /\ Apply(resolve_observer(State, maxsize))
    /\ UNCHANGED <<Inputs, History>>

GetLocation ==
    /\ pc = "location"
    /\ Apply(get_location(State))
    /\ UNCHANGED <<Inputs, History>>

GetChecklist ==
    /\ pc = "checklist"
    /\ Apply(get_checklist(State))
    /\ UNCHANGED <<Inputs, History>>

GetObservation ==
    /\ pc = "observation"
    /\ Apply(get_observation(State))
    /\ created_by' = IF tx'["observation"] # tx["observation"]
                     THEN (fields.observation_id :> count) @@ created_by
                     ELSE created_by
    /\ UNCHANGED <<Inputs, staged, interrupted, runs>>

CountRow ==
    /\ pc = "count"
    /\ Apply(count_row(State))
    /\ staged' = staged \cup {count}
    /\ UNCHANGED <<Inputs, interrupted, created_by, runs>>

\* Ctrl-C while the row loop runs.
TryPcs == {"for", "transform", "state", "county", "locality", "country",
           "observer", "location", "checklist", "observation", "count"}

KeyboardInterrupt ==
    /\ pc \in TryPcs
    /\ Apply(raise(State, "KeyboardInterrupt"))
    /\ interrupted' = IF pc = "for" THEN "between rows" ELSE "within a row"
    /\ UNCHANGED <<Inputs, staged, created_by, runs>>

ExceptKeyError ==
    /\ pc = "except_KeyError"
    /\ Apply(except_KeyError(State))
    /\ UNCHANGED <<Inputs, History>>

ExceptKeyboardInterrupt ==
    /\ pc = "except_KeyboardInterrupt"
    /\ Apply(except_KeyboardInterrupt(State))
    /\ UNCHANGED <<Inputs, History>>

ExceptException ==
    /\ pc = "except_Exception"
    /\ Apply(except_Exception(State))
    /\ UNCHANGED <<Inputs, History>>

Final ==
    /\ pc = "final"
    /\ Apply(final(State))
    /\ UNCHANGED <<Inputs, History>>

\* The importer is started again on the same files and the same store,
\* once: from the first row, or from the row count the ended run printed.
Restart ==
    /\ pc = "exit" /\ runs = <<>>
    /\ \E n \in {0, count} : Apply(NewProcess(db, seq, n))
    /\ runs' = Append(runs, [start_row |-> start_row, interrupted |-> interrupted,
                             exc |-> exc, count |-> count, db |-> db,
                             printed |-> printed])
    /\ staged' = {}
    /\ interrupted' = NotInterrupted
    /\ UNCHANGED <<Inputs, created_by>>

Next ==
    \/ Begin \/ EndOfFile \/ SkipRow \/ ReadRow \/ Transform
    \/ ResolveState \/ ResolveCounty \/ ResolveLocality \/ ResolveCountry
    \/ ResolveObserver \/ GetLocation \/ GetChecklist \/ GetObservation
    \/ CountRow \/ KeyboardInterrupt
    \/ ExceptKeyError \/ ExceptKeyboardInterrupt \/ ExceptException \/ Final

\* One run of the importer on an empty store.
Spec == Init /\ [][Next]_vars

\* The steps the process takes by itself: every step but the arrival of a
\* KeyboardInterrupt.
Proceed ==
    \/ Begin \/ EndOfFile \/ SkipRow \/ ReadRow \/ Transform
    \/ ResolveState \/ ResolveCounty \/ ResolveLocality \/ ResolveCountry
    \/ ResolveObserver \/ GetLocation \/ GetChecklist \/ GetObservation
    \/ CountRow
    \/ ExceptKeyError \/ ExceptKeyboardInterrupt \/ ExceptException \/ Final

\* Files of rows that load, and such files ended by one more row of any
\* kind, read from every start_row.
InitProceeds ==
    LET loading == {r \in PlainRows : r.approved = "1"
                                      /\ r.protocol \in DOMAIN conversion
                                      /\ r.country = CountryNames[r.locality_id][1]}
    IN  InitWith({TaxaSpecies},
                 SeqsUpTo(loading, MaxRows + 1)
                 \cup {Append(f, r) : f \in SeqsUpTo(loading, MaxRows),
                                      r \in PlainRows},
                 {1})

\* One run of a process that is not suspended forever: the interpreter
\* executes the next statement of the single thread.
SpecProceeds == InitProceeds /\ [][Next]_vars /\ WF_vars(Proceed)

\* A run, and a second run on the store the first one left.
NextRerun == Next \/ Restart

SpecRerun == InitRerun /\ [][NextRerun]_vars

\* One run over rows that differ in the places they name.
SpecPlaces == InitPlaces /\ [][Next]_vars

\* One run over rows that differ in the taxon they report.
SpecTaxon == InitTaxon /\ [][Next]_vars

\* The rows as the reader gives them when the header lacks the columns cs.
Lacking(rows, cs) ==
    [i \in 1..Len(rows) |-> [k \in (DOMAIN rows[i]) \ cs |-> rows[i][k]]]

\* Dumps with every column, and dumps that lack the first column read, a
\* column read before the conversions that can fail, between them, or after
\* them.
InitColumns ==
    InitWith({TaxaSpecies},
             {Lacking(f, cs) :
                 f \in SeqsUpTo(PlainRows, MaxColumnRows),
                 cs \in {{}, {"observation_id"}, {"approved"}, {"protocol"},
                         {"country_code"}}},
             {1})

\* One run over a dump that may lack a column.
SpecColumns == InitColumns /\ [][Next]_vars

\* ------------------------------------------------- functions on their own

\* The state in which one function is called on its own: no dump, no
\* taxonomy, an importer that has not started.
InitCall(calls) ==
    /\ taxa_csv = <<>> /\ file = <<>> /\ maxsize = 1
    /\ Starts(NewProcess(EmptyStore, 0, 0))
    /\ staged = {} /\ interrupted = NotInterrupted
    /\ created_by = NoDefaults /\ runs = <<>>
    /\ call \in calls
    /\ ret = NoInstance

Importer == <<taxa_csv, file, maxsize, start_row, db, tx, seq, pc, count, exc,
              country_code_cache, state_cache, county_cache, locality_cache,
              observer_cache, species_sci_names, subspecies_sci_names, fields,
              obs, loc, check, printed, staged, interrupted, created_by, runs>>

\* The Locality records rows can supply: two keys, two spellings each.
Localities ==
    {[locality_id |-> g, locality_type |-> LocalityTypes[n],
      locality_name |-> LocalityNames[n]] : g \in Places, n \in Spellings}

\* Sets of Locality records with distinct keys.
LocalityTables ==
    {t \in SUBSET Localities :
        \A a \in t : \A b \in t : a.locality_id = b.locality_id => a = b}

\* get_or_create(DBSession, Locality, defaults, locality_id=...) on a session
\* that holds some localities, while another writer commits at most one
\* locality whose key the session does not hold.
GetOrCreateCalls ==
    {[fn |-> "get_or_create", model |-> "locality",
      session |-> [EmptyStore EXCEPT !["locality"] = t], others |-> w,
      kwargs |-> [locality_id |-> r.locality_id],
      defaults |-> [locality_type |-> r.locality_type,
                    locality_name |-> r.locality_name]] :
        t \in LocalityTables, r \in Localities,
        w \in {v \in LocalityTables : Cardinality(v) <= 1}}

\* The other writer cannot commit under a key the session holds.
Writable(c) ==
    \A a \in c.others : \A b \in c.session[c.model] : a.locality_id # b.locality_id

InitGetOrCreate == InitCall({c \in GetOrCreateCalls : Writable(c)})

GetOrCreate ==
    /\ call.fn = "get_or_create" /\ ret = NoInstance
    /\ ret' = get_or_create_with_writer(call.session, call.others, 0, call.model,
                                        call.defaults, call.kwargs)
    /\ UNCHANGED <<Importer, call>>

\* One call of get_or_create beside another writer.
SpecGetOrCreate == InitGetOrCreate /\ [][GetOrCreate]_vars

\* Taxonomy rows of two taxa, each a species or a subspecies group, that
\* report as nothing, as themselves or as the other.
TaxonomyRows ==
    {Taxon(n, c, <<"Anas acuta", "Anas platyrhynchos">>[n],
           <<"norpin", "mallar">>[n], p) :
        n \in {1, 2}, c \in {"species", "issf"}, p \in {"", "norpin", "mallar"}}

ParseTaxonomyCalls ==
    {[fn |-> "parse_ebird_taxonomy", rows |-> rows] :
        rows \in SeqsUpTo(TaxonomyRows, MaxTaxa)}

InitParseTaxonomy == InitCall(ParseTaxonomyCalls)

ParseTaxonomy ==
    /\ call.fn = "parse_ebird_taxonomy" /\ ret = NoInstance
    /\ ret' = parse_ebird_taxonomy(call.rows)
    /\ UNCHANGED <<Importer, call>>

\* One call of parse_ebird_taxonomy.
SpecParseTaxonomy == InitParseTaxonomy /\ [][ParseTaxonomy]_vars

\* parsed_taxa_csv_to_db on the same taxonomy files, against an empty store.
TaxaToDbCalls ==
    {[fn |-> "parsed_taxa_csv_to_db", rows |-> rows] :
        rows \in SeqsUpTo(TaxonomyRows, MaxTaxa)}

InitTaxaToDb == InitCall(TaxaToDbCalls)

TaxaToDb ==
    /\ call.fn = "parsed_taxa_csv_to_db" /\ ret = NoInstance
    /\ ret' = parsed_taxa_csv_to_db(EmptyStore, EmptyStore, call.rows)
    /\ UNCHANGED <<Importer, call>>

\* One call of parsed_taxa_csv_to_db.
SpecTaxaToDb == InitTaxaToDb /\ [][TaxaToDb]_vars

\* OBSERVATION DATE fields: empty, month first, year first.
Dates ==
    {<<>>,
     <<"0", "3", "-", "0", "4", "-", "2", "0", "1", "5">>,
     <<"0", "3", "/", "0", "4", "/", "2", "0", "1", "5">>,
     <<"1", "2", "-", "2", "5", "-", "2", "0", "1", "4">>,
     <<"2", "0", "1", "5", "-", "0", "3", "-", "0", "4">>,
     <<"2", "0", "1", "4", "/", "1", "2", "/", "2", "5">>}

\* TIME OBSERVATIONS STARTED fields: empty, two times, a time without seconds.
Times ==
    {<<>>,
     <<"0", "7", ":", "3", "0", ":", "0", "0">>,
     <<"2", "3", ":", "5", "9", ":", "5", "9">>,
     <<"7", ":", "3", "0">>}

\* DURATION MINUTES fields: empty, two numbers, not a number.
Durations ==
    {<<>>,
     <<"4", "5">>,
     <<"0">>,
     <<"x">>}

ParseStartDurationCalls ==
    {[fn |-> "parse_start_duration", checklist_date |-> d, checklist_time |-> t,
      checklist_duration |-> m] : d \in Dates, t \in Times, m \in Durations}

InitParseStartDuration == InitCall(ParseStartDurationCalls)

ParseStartDuration ==
    /\ call.fn = "parse_start_duration" /\ ret = NoInstance
    /\ ret' = parse_start_duration(call.checklist_date, call.checklist_time,
                                   call.checklist_duration)
    /\ UNCHANGED <<Importer, call>>

\* One call of parse_start_duration.
SpecParseStartDuration == InitParseStartDuration /\ [][ParseStartDuration]_vars

\* Date components as a field writes them, and the number each writes.
DateComponents ==
    {[text |-> <<"2", "0", "1", "5">>, value |-> 2015],
     [text |-> <<"2", "0", "1", "4">>, value |-> 2014],
     [text |-> <<"0", "3">>, value |-> 3],
     [text |-> <<"1", "2">>, value |-> 12],
     [text |-> <<"4">>, value |-> 4],
     [text |-> <<"2", "5">>, value |-> 25]}

\* The separators the docstring of parse_date names.
DateSeparators == {"/", "\\", "-"}

\* parse_date on three components written with one separator.
ParseDateCalls ==
    {[fn |-> "parse_date", components |-> <<a, b, c>>, separator |-> sep,
      date_str |-> a.text \o <<sep>> \o b.text \o <<sep>> \o c.text] :
        a \in DateComponents, b \in DateComponents, c \in DateComponents,
        sep \in DateSeparators}

InitParseDate == InitCall(ParseDateCalls)

ParseDate ==
    /\ call.fn = "parse_date" /\ ret = NoInstance
    /\ ret' = parse_date(call.date_str)
    /\ UNCHANGED <<Importer, call>>

\* One call of parse_date.
SpecParseDate == InitParseDate /\ [][ParseDate]_vars

\* Digits as a field carries them, and the number they write.
IdNumbers ==
    {[text |-> <<"1", "2", "3", "4", "5", "6", "7">>, value |-> 1234567],
     [text |-> <<"9", "9", "9">>, value |-> 999],
     [text |-> <<"0", "0", "0", "1", "2", "3">>, value |-> 123]}

IdTexts == {x.text : x \in IdNumbers}

GuidPrefix == <<"U", "R", "N", ":", "C", "o", "r", "n", "e", "l", "l", "L", "a", "b", "O", "f", "O", "r", "n", "i", "t", "h", "o", "l", "o", "g", "y", ":", "E", "B", "I", "R", "D", ":", "O", "B", "S">>

\* The id fields of a row: every prefix with every number, and a row that
\* belongs to no group.
RowIdsCalls ==
    {[fn |-> "row_ids", guid |-> GuidPrefix \o o, sampling |-> <<"S">> \o c,
      group |-> g, observer |-> <<"o", "b", "s", "r">> \o b,
      locality |-> <<"L">> \o l] :
        o \in IdTexts, c \in IdTexts, b \in IdTexts, l \in IdTexts,
        g \in {<<>>} \cup {<<"G">> \o t : t \in IdTexts}}

InitRowIds == InitCall(RowIdsCalls)

RowIds ==
    /\ call.fn = "row_ids" /\ ret = NoInstance
    /\ ret' = row_ids(call.guid, call.sampling, call.group, call.observer,
                      call.locality)
    /\ UNCHANGED <<Importer, call>>

\* The id conversions of one row.
SpecRowIds == InitRowIds /\ [][RowIds]_vars

\* ------------------------------------------------------------------ claims

ObservationIds(store) == {o.observation : o \in store["observation"]}

\* Row i (from 0) has its Observation in the store.
RowLoaded(i, store) == file[i + 1].observation_id \in ObservationIds(store)

\* The Observation records of the session that a row of this file created,
\* and the row that created each.
CreatedObservations == {o \in tx["observation"] : o.observation \in DOMAIN created_by}
SourceRow(o) == file[created_by[o.observation] + 1]

\* Both runs started at row 0 and neither was interrupted.
TwoFullRuns ==
    /\ Len(runs) = 1 /\ runs[1].start_row = 0 /\ runs[1].interrupted = "no"
    /\ start_row = 0 /\ interrupted = "no"

\* C1: when the pipeline (taxonomy load, then the dump from row 0) is run a
\* second time on the store the first run left, the committed store never
\* differs from what the first run left: every table keeps its records, so
\* every count is the same and the second run adds no record.
C1_Idempotent ==
    TwoFullRuns =>
        /\ db = runs[1].db
        /\ \A m \in Models : Cardinality(db[m]) = Cardinality(runs[1].db[m])

\* C1's case: the second full run has ended on a store that holds two
\* observations, at two locations.
C1_Witness ==
    /\ TwoFullRuns /\ pc = "exit"
    /\ Cardinality(db["observation"]) = 2 /\ Cardinality(db["location"]) = 2

\* The first run started at row 0 and was stopped by Ctrl-C between rows;
\* the second run started at the row count the first had reached and ended
\* without an interrupt.
SplitRunEnded ==
    /\ Len(runs) = 1 /\ runs[1].start_row = 0
    /\ runs[1].interrupted = "between rows"
    /\ start_row = runs[1].count /\ interrupted = "no" /\ pc = "exit"

\* The store one uninterrupted run from row 0 leaves.
SingleRun == Run(NewProcess(EmptyStore, 0, 0), taxa_csv, file, maxsize)

\* C2: a run stopped after rows 0..M-1 and a fresh run from row M leave the
\* store that a single uninterrupted run over the whole file leaves.
C2_Resumable == SplitRunEnded => db = SingleRun.db

\* The reference models and their natural keys.
RefKey ==
    [m \in {"stateprovince", "county", "locality", "observer", "country"} |->
        CASE m = "stateprovince" -> "state_code" [] m = "county" -> "county_code"
          [] m = "locality" -> "locality_id" [] m = "observer" -> "observer_id"
          [] m = "country" -> "country_code"]

\* The reference record a row supplies for model m.
Supplied(m, row) ==
    CASE m = "stateprovince" ->
             [state_code |-> row.state_code, state_province |-> row.state_province]
      [] m = "county" -> [county_code |-> row.county_code, county |-> row.county]
      [] m = "locality" ->
             [locality_id |-> row.locality_id, locality_type |-> row.locality_type,
              locality_name |-> row.locality_name]
      [] m = "observer" -> [observer_id |-> row.observer_id]
      [] m = "country" -> [country_code |-> row.country_code, country |-> row.country]

\* The first row this run processes that names the key of record r.
FirstRow(m, r) ==
    LET naming == {i \in (start_row + 1)..Len(file) :
                      Supplied(m, file[i])[RefKey[m]] = r[RefKey[m]]}
    IN  file[CHOOSE i \in naming : \A j \in naming : i <= j]

\* The lru_cache of the stub of model m.
CacheOf(m) ==
    CASE m = "stateprovince" -> state_cache [] m = "county" -> county_cache
      [] m = "locality" -> locality_cache [] m = "observer" -> observer_cache
      [] OTHER -> <<>>

\* The natural key among the arguments a stub of model m was called with.
KeyOf(m, args) == IF m \in {"stateprovince", "county"} THEN args[2] ELSE args[1]

\* C3: for every cache capacity, the session's store holds one record per
\* state, county, locality, observer and country key, which is the record
\* the first row naming the key created, and every result a stub has
\* returned and still caches is the stored record of the key it was asked.
C3_OneRecordPerKey ==
    pc # "exit" =>
        \A m \in DOMAIN RefKey :
            /\ \A r \in tx[m] :
                  /\ \A r2 \in tx[m] : r2[RefKey[m]] = r[RefKey[m]] => r2 = r
                  /\ r = Supplied(m, FirstRow(m, r))
            /\ \A i \in 1..Len(CacheOf(m)) :
                  /\ CacheOf(m)[i].value[1] \in tx[m]
                  /\ CacheOf(m)[i].value[1][RefKey[m]] = KeyOf(m, CacheOf(m)[i].key)

\* C3's case: with a cache of one entry, the third row names the state of
\* the first row again after the second row evicted it; the state has just
\* been resolved from the store, where it is not committed yet.
C3_Witness ==
    /\ maxsize = 1 /\ start_row = 0 /\ count = 2 /\ pc = "county"
    /\ file[3].state_code = file[1].state_code
    /\ file[3].state_province = file[1].state_province
    /\ file[2].state_code # file[1].state_code
    /\ db["stateprovince"] = {}
    /\ Cardinality(tx["stateprovince"]) = 2
    /\ state_cache[1].value[1] = Supplied("stateprovince", file[1])

\* C4: an Observation that parse_ebird_dump created has at most one of
\* species_id and subspecies_id set, and exactly one when the row's
\* SCIENTIFIC NAME is not empty.
C4_AtMostOneTaxon ==
    \A o \in CreatedObservations :
        /\ o.species_id = None \/ o.subspecies_id = None
        /\ SourceRow(o).scientific_name # "" =>
               (o.species_id # None) # (o.subspecies_id # None)

\* C5: an Observation created from a spuh, slash or hybrid row has the row's
\* SCIENTIFIC NAME as subspecies_id and no species_id.
C5_SpuhSlashHybrid ==
    \A o \in CreatedObservations :
        SourceRow(o).species_category \in {"spuh", "slash", "hybrid"} =>
            /\ o.subspecies_id = SourceRow(o).scientific_name
            /\ o.species_id = None

\* C5's case: a hybrid row that carries a SUBSPECIES SCIENTIFIC NAME too has
\* created its Observation.
C5_Witness ==
    \E o \in CreatedObservations :
        /\ SourceRow(o).species_category = "hybrid"
        /\ SourceRow(o).scientific_name = "Anas acuta"
        /\ SourceRow(o).subspecies_scientific_name = "Anas acuta acuta"

\* C6: an Observation created from a domestic or form row is stored as a
\* subspecies when the SCIENTIFIC NAME was a known SubSpecies name at the
\* start of the run, and as a species otherwise.
C6_DomesticForm ==
    \A o \in CreatedObservations :
        SourceRow(o).species_category \in {"domestic", "form"} =>
            IF SourceRow(o).scientific_name \in subspecies_sci_names
            THEN o.subspecies_id = SourceRow(o).scientific_name /\ o.species_id = None
            ELSE o.species_id = SourceRow(o).scientific_name /\ o.subspecies_id = None

\* C7: when a fault leaves the run, every row staged before it is in the
\* committed store.
C7_FaultCommitsStaged ==
    (pc = "exit" /\ exc # "none") => \A i \in staged : RowLoaded(i, db)

\* C8: after a KeyboardInterrupt in the row loop the run goes to its
\* handler and to the end, reading no further row; once the handler has run,
\* no fault is pending, nothing staged is uncommitted and every staged row
\* is in the committed store.
C8_InterruptCommits ==
    interrupted # "no" =>
        /\ pc \in {"except_KeyboardInterrupt", "final", "exit"}
        /\ pc \in {"final", "exit"} =>
               /\ exc = "none"
               /\ db = tx
               /\ \A i \in staged : RowLoaded(i, db)

\* C8's case: a run interrupted within its third row has ended, with the
\* two rows staged before it and no batch commit before the interrupt.
C8_Witness ==
    /\ interrupted = "within a row" /\ pc = "exit" /\ start_row = 0
    /\ staged = {0, 1} /\ count = 2
    /\ Cardinality(db["observation"]) = 2

\* A record of model m that the row supplies or refers to.
Names(m, row, r) ==
    CASE m \in DOMAIN RefKey -> r[RefKey[m]] = Supplied(m, row)[RefKey[m]]
      [] m = "location" -> r.coords = row.coords
      [] m = "checklist" -> r.checklist = row.checklist_id
      [] OTHER -> FALSE

\* C9: every state, county, locality, country, observer, Location and
\* Checklist record of the committed store belongs to a row whose
\* Observation is committed too.
C9_RowAtomic ==
    \A m \in DOMAIN RefKey \cup {"location", "checklist"} :
        \A r \in db[m] :
            \E i \in 0..(Len(file) - 1) : Names(m, file[i + 1], r) /\ RowLoaded(i, db)

\* The rows this run staged whose Observation is not committed.
Uncommitted == {i \in staged : ~RowLoaded(i, db)}

\* C10: between rows, fewer than COMMIT_BATCH staged rows are uncommitted,
\* whatever the start row; and whenever the row count is a multiple of
\* COMMIT_BATCH everything staged has been committed.
C10_BatchBound ==
    pc = "for" =>
        /\ Cardinality(Uncommitted) <= COMMIT_BATCH - 1
        /\ (count % COMMIT_BATCH = 0 /\ staged # {}) => db = tx

\* C10's case: a run that started at row 1 has staged rows 1 and 2 and
\* committed them when the row count reached COMMIT_BATCH.
C10_Witness ==
    /\ pc = "for" /\ start_row = 1 /\ count = COMMIT_BATCH
    /\ staged = 1..(COMMIT_BATCH - 1)
    /\ \A i \in staged : RowLoaded(i, db)
    /\ file[2].observation_id # file[3].observation_id

\* The other writer of the call committed a record under the key the call
\* asks for, which the call's session did not hold.
LostRace ==
    /\ call.fn = "get_or_create" /\ ret # NoInstance
    /\ Query(call.session, call.model, call.kwargs) = {}
    /\ \E r \in call.others : r.locality_id = call.kwargs.locality_id

\* C11: when the insert of get_or_create fails because another writer
\* created a record with the same key first, with the supplied attribute
\* values or with others, the call returns that record with created =
\* False, raises nothing, and leaves the records of its session in place.
C11_RaceRecovered ==
    LostRace =>
        /\ ret.exc = "none"
        /\ ret.instance \in call.others
        /\ ret.created = FALSE
        /\ call.session[call.model] \subseteq ret.session[call.model]

\* C11 when the other writer's record has the attribute values the call
\* supplies: the call returns that record and raises nothing.
C11_SameAttributes ==
    (LostRace /\ update(call.kwargs, call.defaults) \in call.others) =>
        /\ ret.exc = "none"
        /\ ret.instance \in call.others
        /\ ret.created = FALSE
        /\ call.session[call.model] \subseteq ret.session[call.model]

\* The other writer's record differs from the supplied defaults, and the
\* session holds a locality of its own.
C11_Witness ==
    /\ LostRace
    /\ update(call.kwargs, call.defaults) \notin call.others
    /\ call.session[call.model] # {}

\* parse_ebird_taxonomy has returned or raised.
TaxonomyParsed == call.fn = "parse_ebird_taxonomy" /\ ret # NoInstance

\* C12: parse_ebird_taxonomy returns only if every non-empty REPORT_AS is
\* the SPECIES_CODE of a row strictly earlier in the file.
C12_ParentEarlier ==
    (TaxonomyParsed /\ ret.exc = "none") =>
        \A i \in 1..Len(call.rows) :
            call.rows[i].REPORT_AS # "" =>
                \E j \in 1..(i - 1) :
                    call.rows[j].SPECIES_CODE = call.rows[i].REPORT_AS

\* C12 without the row itself: parse_ebird_taxonomy returns exactly when
\* every non-empty REPORT_AS is the SPECIES_CODE of the row or of an
\* earlier one, and raises KeyError otherwise.
C12_ParentNotLater ==
    TaxonomyParsed =>
        /\ ret.exc \in {"none", "KeyError"}
        /\ ret.exc = "none" <=>
               \A i \in 1..Len(call.rows) :
                   call.rows[i].REPORT_AS # "" =>
                       \E j \in 1..i :
                           call.rows[j].SPECIES_CODE = call.rows[i].REPORT_AS

\* parse_start_duration has returned or raised, for a duration field that
\* is empty or a number and a time field that is empty or hh:mm:ss.
StartDurationParsed ==
    /\ call.fn = "parse_start_duration" /\ ret # NoInstance
    /\ call.checklist_duration = <<>> \/ int(call.checklist_duration).exc = "none"
    /\ call.checklist_time = <<>> \/ parse_time(call.checklist_time).exc = "none"

\* The three numbers of the date field, in the order written.
DateNumbers == three_ints(split(call.checklist_date, {"/", "-"})).values

\* The start and duration the call must give when the date field is read
\* as the numbers y, m, d.
StartDurationIs(y, m, d) ==
    LET t == parse_time(call.checklist_time)
    IN  /\ ret.exc = "none"
        /\ ret.start =
               IF call.checklist_time = <<>>
               THEN [year |-> y, month |-> m, day |-> d,
                     hour |-> 0, minute |-> 0, second |-> 0]
               ELSE [year |-> y, month |-> m, day |-> d,
                     hour |-> t.h, minute |-> t.m, second |-> t.s]
        /\ ret.duration =
               IF call.checklist_duration = <<>> THEN NoInstance
               ELSE [seconds |-> 60 * int(call.checklist_duration).value]

\* C13: parse_start_duration reads the date as month-day-year: no start for
\* an empty date and time, midnight of the date for an empty time, the
\* exact timestamp for both, and beside any of them no duration for an
\* empty duration field and m minutes for the field "m".
C13_MonthDayYear ==
    StartDurationParsed =>
        IF call.checklist_date = <<>>
        THEN call.checklist_time = <<>> =>
                 /\ ret.exc = "none" /\ ret.start = NoInstance
                 /\ ret.duration =
                        IF call.checklist_duration = <<>> THEN NoInstance
                        ELSE [seconds |-> 60 * int(call.checklist_duration).value]
        ELSE (DateNumbers[1] \in 1..12 /\ DateNumbers[2] \in 1..31) =>
                 StartDurationIs(DateNumbers[3], DateNumbers[1], DateNumbers[2])

\* C13 with the date read as year-month-day, the order parse_date returns
\* the numbers in.
C13_YearMonthDay ==
    StartDurationParsed =>
        IF call.checklist_date = <<>>
        THEN call.checklist_time = <<>> =>
                 /\ ret.exc = "none" /\ ret.start = NoInstance
                 /\ ret.duration =
                        IF call.checklist_duration = <<>> THEN NoInstance
                        ELSE [seconds |-> 60 * int(call.checklist_duration).value]
        ELSE (DateNumbers[2] \in 1..12 /\ DateNumbers[3] \in 1..28) =>
                 StartDurationIs(DateNumbers[1], DateNumbers[2], DateNumbers[3])

\* C14: each id is the number written by the digits after the fixed prefix
\* of its field: "S" for the checklist, the "OBS" of the last colon
\* segment for the observation, "obsr" for the observer, "L" for the
\* locality, "G" for the group, whose empty field gives no id.
C14_Identifiers ==
    (call.fn = "row_ids" /\ ret # NoInstance) =>
        /\ ret.exc = "none"
        /\ \A x \in IdNumbers :
              /\ call.sampling = <<"S">> \o x.text => ret.checklist_id = x.value
              /\ call.guid = GuidPrefix \o x.text => ret.observation_id = x.value
              /\ call.observer = <<"o", "b", "s", "r">> \o x.text =>
                     ret.observer_id = x.value
              /\ call.locality = <<"L">> \o x.text => ret.locality_id = x.value
              /\ call.group = <<"G">> \o x.text => ret.group_id = [int |-> x.value]
        /\ call.group = <<>> => ret.group_id = NoInstance

\* C14's case: the ids of a row of checklist S1234567, observation OBS999
\* and observer obsr000123, in no group.
C14_Witness ==
    /\ call.fn = "row_ids" /\ ret # NoInstance
    /\ call.sampling = <<"S", "1", "2", "3", "4", "5", "6", "7">>
    /\ call.observer = <<"o", "b", "s", "r", "0", "0", "0", "1", "2", "3">>
    /\ call.group = <<>>
    /\ ret.checklist_id = 1234567 /\ ret.observation_id = 999
    /\ ret.observer_id = 123

\* The rows this run processes whose PROTOCOL TYPE is not in the table.
UnknownProtocolRows ==
    {i \in start_row..(Len(file) - 1) : file[i + 1].protocol \notin DOMAIN conversion}

LacksColumn ==
    /\ start_row < Len(file) /\ interrupted = "no"
    /\ \E i \in 1..Len(Columns) : Columns[i] \notin DOMAIN file[1]

\* C16: a run over a dump that lacks a column never gets past its first
\* row, which is never staged; it creates no Checklist and no Observation;
\* and it ends through the except KeyError clause, which prints the
\* unsupported-format message and re-raises.
C16_MissingColumnAborts ==
    LacksColumn =>
        /\ count <= start_row /\ staged = {}
        /\ tx["checklist"] = {} /\ tx["observation"] = {}
        /\ pc \notin {"final", "except_Exception", "except_KeyboardInterrupt"}
        /\ pc = "exit" => exc = "KeyError"

\* C16 for a first row whose APPROVED field converts, or whose missing
\* column is read before APPROVED is converted.
C16_MissingColumnWellFormed ==
    (/\ LacksColumn
     /\ \/ KeyErrorIn(file[start_row + 1], 6)
        \/ file[start_row + 1].approved \in {"0", "1"}) =>
        /\ count <= start_row /\ staged = {}
        /\ tx["checklist"] = {} /\ tx["observation"] = {}
        /\ pc \notin {"final", "except_Exception", "except_KeyboardInterrupt"}
        /\ pc = "exit" => exc = "KeyError"

\* C16 without the diagnosis: the run aborts at its first row with a fault
\* and creates no Checklist and no Observation.
C16_MissingColumnFault ==
    LacksColumn =>
        /\ count <= start_row /\ staged = {}
        /\ tx["checklist"] = {} /\ tx["observation"] = {}
        /\ pc \notin {"final", "except_KeyboardInterrupt"}
        /\ pc = "exit" => exc \in {"KeyError", "ValueError"}

\* The last row count the first run printed.
LastPrinted == runs[1].printed[Len(runs[1].printed)].count

\* C17: when a run has ended, every row from start_row up to each count it
\* printed (at a batch commit, in the fault report, as the final count) is
\* in the committed store; and a second run started at the last count the
\* first one printed, if it reaches the end of the file, leaves every row
\* from the first run's start_row on in the committed store.
C17_PrintedCountResumable ==
    /\ pc = "exit" =>
           \A k \in 1..Len(printed) :
               \A i \in start_row..(printed[k].count - 1) : RowLoaded(i, db)
    /\ (/\ Len(runs) = 1 /\ runs[1].printed # <<>> /\ start_row = LastPrinted
        /\ pc = "exit" /\ exc = "none" /\ interrupted = "no") =>
           \A i \in runs[1].start_row..(Len(file) - 1) : RowLoaded(i, db)

\* C17's case: the first run staged a row, failed at the next one and
\* printed the count 1 in its fault report.
C17_Witness ==
    /\ pc = "exit" /\ runs = <<>> /\ start_row = 0 /\ interrupted = "no"
    /\ exc = "NoResultFound" /\ count = 1
    /\ printed = <<[line |-> "Entries", count |-> 1]>>
    /\ RowLoaded(0, db)

\* The process as lines 138-148 leave it, before any row is read.
AfterBegin == begin(NewProcess(EmptyStore, 0, start_row), taxa_csv)

\* The run has read only rows below start_row.
OnlySkipped ==
    /\ pc # "start"
    /\ \/ count < start_row
       \/ count = start_row /\ pc = "for"
       \/ start_row = Len(file)

\* C18: while only rows below start_row have been read, whatever they hold,
\* the store is as the start of the run left it, every cache is empty,
\* nothing is staged, no field was converted and no fault was raised; the
\* run is in its loop, or ending after Ctrl-C or at the end of the file, and
\* it ends without a fault.
C18_SkippedUntouched ==
    OnlySkipped =>
        /\ tx = AfterBegin.tx /\ db = AfterBegin.db /\ seq = 0
        /\ state_cache = <<>> /\ county_cache = <<>> /\ locality_cache = <<>>
        /\ observer_cache = <<>> /\ country_code_cache = NoDefaults
        /\ staged = {} /\ fields = NoInstance
        /\ pc \in {"for", "except_KeyboardInterrupt", "final", "exit"}
        /\ exc \in {"none", "KeyboardInterrupt"}
        /\ pc = "exit" => exc = "none"

\* C18's case: a run told to start behind the last of two rows, one with a
\* malformed APPROVED and one with an unknown protocol, has ended.
C18_Witness ==
    /\ Len(file) = 2 /\ start_row = 2 /\ count = 2 /\ pc = "exit"
    /\ interrupted = "no"
    /\ file[1].approved = "x" /\ file[2].protocol = "Nocturnal Walk"

\* The key a row's record of each model is looked up by.
NaturalKey ==
    [m \in Models \ {"species", "subspecies"} |->
        IF m \in DOMAIN RefKey THEN RefKey[m]
        ELSE IF m = "location" THEN "coords" ELSE m]

\* No table holds two records under one key, and the Location and the
\* Checklist a row has resolved are records of the session.
OneRecordPerKey ==
    /\ \A m \in DOMAIN NaturalKey :
          \A r \in tx[m] : \A r2 \in tx[m] :
              r2[NaturalKey[m]] = r[NaturalKey[m]] => r2 = r
    /\ pc \in {"checklist", "observation", "count"} => loc \in tx["location"]
    /\ pc \in {"observation", "count"} => check \in tx["checklist"]

\* Every committed record stays as it is, and every record of the session
\* stays as it is unless the open transaction is lost.
RecordsKept ==
    \A m \in DOMAIN NaturalKey :
        /\ db[m] \subseteq db'[m]
        /\ tx[m] \subseteq tx'[m] \/ tx' = db

\* C19: in a run and in a re-run, a record of the store is never changed
\* or replaced and no second record appears under its key, whatever
\* attribute values later rows carry for that key; a row resolves to the
\* record that exists.
C19_RecordsImmutable == []OneRecordPerKey /\ [][RecordsKept]_vars

\* C19's case: a re-run from row 0 has ended; the second row names the
\* locality, checklist and observation of the first under other attribute
\* values, and the store holds them with the values of the first row.
C19_Witness ==
    /\ Len(runs) = 1 /\ start_row = 0 /\ pc = "exit" /\ exc = "none"
    /\ Len(file) = 2 /\ count = 2
    /\ file[2].locality_id = file[1].locality_id
    /\ file[2].locality_name # file[1].locality_name
    /\ file[2].checklist_id = file[1].checklist_id
    /\ file[2].coords # file[1].coords
    /\ file[2].observation_id = file[1].observation_id
    /\ db["locality"] = {Supplied("locality", file[1])}
    /\ Cardinality(db["location"]) = 2
    /\ Cardinality(db["checklist"]) = 1 /\ Cardinality(db["observation"]) = 1

\* Some record of table m of the store has value v in column c.
Exists(store, m, c, v) == \E r \in store[m] : r[c] = v

\* Every reference of an Observation, a Checklist and a Location of the
\* store to a checklist, observer, location, country, state, county or
\* locality names a record of the store.
References(store) ==
    /\ \A o \in store["observation"] :
          /\ Exists(store, "checklist", "checklist", o.checklist_id)
          /\ Exists(store, "observer", "observer_id", o.observer_id)
    /\ \A c \in store["checklist"] : Exists(store, "location", "id", c.location_id)
    /\ \A l \in store["location"] :
          /\ Exists(store, "country", "country_code", l.country_id)
          /\ Exists(store, "stateprovince", "state_code", l.state_province_id)
          /\ Exists(store, "county", "county_code", l.county_id)
          /\ Exists(store, "locality", "locality_id", l.locality_id)

\* C20: the committed store and the session never hold a dangling
\* reference; and a row's state, county, locality, country and observer
\* are in the session before its Location is resolved, its Location before
\* its Checklist, its Checklist before its Observation.
C20_ReferentialIntegrity ==
    /\ References(db) /\ References(tx)
    /\ pc = "location" =>
           /\ Exists(tx, "stateprovince", "state_code", fields.state_code)
           /\ Exists(tx, "county", "county_code", fields.county_code)
           /\ Exists(tx, "locality", "locality_id", fields.locality_id)
           /\ Exists(tx, "country", "country_code", fields.country_code)
           /\ Exists(tx, "observer", "observer_id", fields.observer_id)
    /\ pc = "checklist" => loc \in tx["location"]
    /\ pc = "observation" => check \in tx["checklist"]

\* C20's case: Ctrl-C within the second row, after its Location was
\* created, has committed that Location without a Checklist for it.
C20_Witness ==
    /\ pc = "exit" /\ interrupted = "within a row" /\ count = 1
    /\ Cardinality(db["location"]) = 2
    /\ Cardinality(db["checklist"]) = 1 /\ Cardinality(db["observation"]) = 1

\* parsed_taxa_csv_to_db has loaded a file in which every non-empty
\* REPORT_AS is the SPECIES_CODE of a strictly earlier row.
TaxaLoaded ==
    /\ call.fn = "parsed_taxa_csv_to_db" /\ ret # NoInstance
    /\ ret.exc = "none"
    /\ \A i \in 1..Len(call.rows) :
          call.rows[i].REPORT_AS # "" =>
              \E j \in 1..(i - 1) :
                  call.rows[j].SPECIES_CODE = call.rows[i].REPORT_AS

C21_ParentIsStoredTaxon ==
    TaxaLoaded =>
        /\ \A r \in ret.committed["subspecies"] :
              r.parent_species_id # None =>
                  \/ Exists(ret.committed, "species", "scientific_name",
                            r.parent_species_id)
                  \/ Exists(ret.committed, "subspecies", "scientific_name",
                            r.parent_species_id)
        /\ (\A i \in 1..Len(call.rows) : \A j \in 1..Len(call.rows) :
                call.rows[j].SPECIES_CODE = call.rows[i].REPORT_AS =>
                    call.rows[j].CATEGORY = "species") =>
               \A r \in ret.committed["subspecies"] :
                   r.parent_species_id # None =>
                       Exists(ret.committed, "species", "scientific_name",
                              r.parent_species_id)

\* The position at which the reference of model m is resolved.
ResolvingPc ==
    [m \in DOMAIN RefKey |->
        CASE m = "stateprovince" -> "state" [] m = "county" -> "county"
          [] m = "locality" -> "locality" [] m = "observer" -> "observer"
          [] m = "country" -> "country"]

\* The arguments the stub of model m is called with for the current row.
StubArgs(m) ==
    CASE m = "stateprovince" -> <<fields.state_province, fields.state_code>>
      [] m = "county" -> <<fields.county, fields.county_code>>
      [] m = "locality" ->
             <<fields.locality_id, fields.locality_type, fields.locality_name>>
      [] OTHER -> <<fields.observer_id>>

\* The current row's key of model m was resolved earlier in the run and its
\* entry has not left the cache.
CachedKey(m) ==
    IF m = "country" THEN fields.country_code \in DOMAIN country_code_cache
    ELSE \E i \in 1..Len(CacheOf(m)) :
             KeyOf(m, CacheOf(m)[i].key) = fields[RefKey[m]]

\* The resolution of model m for the current row is answered by the cache.
CacheHit(m) ==
    IF m = "country" THEN fields.country_code \in DOMAIN country_code_cache
    ELSE Hit(CacheOf(m), StubArgs(m)) # {}

\* C22: when a reference is about to be resolved and its natural key is in
\* the cache of its model, the resolution is a cache hit, whatever names
\* and type the row carries for the key.
C22_CachedKeyHits ==
    \A m \in DOMAIN RefKey :
        (pc = ResolvingPc[m] /\ CachedKey(m)) => CacheHit(m)

\* C22 for the whole argument list: the resolution is a cache hit exactly
\* when the cache holds an entry for the key with the names and type of
\* the current row; a country or observer key in the cache always hits; and
\* on a miss under a cached key the session holds one record of that key.
C22_CachedArgumentsHit ==
    \A m \in DOMAIN RefKey :
        pc = ResolvingPc[m] =>
            /\ m \in {"country", "observer"} => (CachedKey(m) <=> CacheHit(m))
            /\ m \notin {"country"} =>
                   (CacheHit(m) <=>
                       \E i \in 1..Len(CacheOf(m)) : CacheOf(m)[i].key = StubArgs(m))
            /\ (CachedKey(m) /\ ~CacheHit(m)) =>
                   Cardinality(Query(tx, m, [k \in {RefKey[m]} |-> fields[RefKey[m]]])) = 1

\* The run has returned from parse_ebird_dump with no fault and no
\* interrupt.
NormalEnd == pc = "exit" /\ exc = "none" /\ interrupted = NotInterrupted

\* The final commit was the last thing the run did to the store, and every
\* row from start_row on has its Observation in the committed store.
FinalCommitted ==
    /\ printed # <<>> /\ printed[Len(printed)].line = "Final count"
    /\ printed[Len(printed)].count = count
    /\ db = tx
    /\ count >= Len(file)
    /\ \A i \in start_row..(Len(file) - 1) : RowLoaded(i, db)

\* C23: for every file and start_row the run ends, returning or raising;
\* and when it has returned with no KeyboardInterrupt, the final commit
\* was issued and every row from start_row on, the rows after the last
\* batch commit included, has its Observation in the committed store.
C23_TerminatesCommitted == <>(pc = "exit") /\ [](NormalEnd => FinalCommitted)

\* C23's case: a run from row 2 of a file of four rows has returned; its
\* batch commit came after the third row, and the fourth row, another
\* observation, was committed by the final commit alone.
C23_Witness ==
    /\ NormalEnd /\ Len(file) = COMMIT_BATCH + 1 /\ start_row = COMMIT_BATCH - 1
    /\ count = COMMIT_BATCH + 1
    /\ file[COMMIT_BATCH + 1].observation_id # file[COMMIT_BATCH].observation_id
    /\ printed = <<[line |-> "Commit", count |-> COMMIT_BATCH],
                   [line |-> "Final count", count |-> COMMIT_BATCH + 1]>>
    /\ RowLoaded(COMMIT_BATCH, db)

\* parse_date has returned or raised.
DateParsed == call.fn = "parse_date" /\ ret # NoInstance

\* The three numbers of the call's components, as parse_date returns them.
ComponentNumbers ==
    [exc |-> "none", year |-> call.components[1].value,
     month |-> call.components[2].value, day |-> call.components[3].value]

\* C24: whichever of '/', '\' and '-' separates the three components,
\* parse_date returns their three numbers, so the same result for each
\* separator.
C24_ThreeSeparators == DateParsed => ret = ComponentNumbers

\* C24 for the separators of the pattern: with '/' and with '-' parse_date
\* returns the three numbers; with '\' it raises ValueError.
C24_SlashAndHyphen ==
    DateParsed =>
        IF call.separator \in {"/", "-"} THEN ret = ComponentNumbers
        ELSE ret.exc = "ValueError"

\* The name column of Country, StateProvince and County.
NameCol ==
    [m \in {"country", "stateprovince", "county"} |->
        CASE m = "country" -> "country" [] m = "stateprovince" -> "state_province"
          [] m = "county" -> "county"]

\* No two records of model m, in the session or committed, have one name.
NamesUnique(m) ==
    \A store \in {db, tx} :
        \A r \in store[m] : \A r2 \in store[m] :
            r[NameCol[m]] = r2[NameCol[m]] => r = r2

\* C25: no two Country records, no two StateProvince records and no two
\* County records have the same name.
C25_NamesUnique == \A m \in DOMAIN NameCol : NamesUnique(m)

\* C25 for Country alone, the one name column that models.py declares
\* unique: no two Country records have the same name, and a row that
\* carries a stored country name under a new code ends the run at the
\* country with NoResultFound.
C25_CountryNamesUnique ==
    /\ NamesUnique("country")
    /\ (/\ pc = "country"
        /\ fields.country_code \notin DOMAIN country_code_cache
        /\ \E r \in tx["country"] : /\ r.country = fields.country
                                     /\ r.country_code # fields.country_code) =>
           /\ resolve_country(State).exc = "NoResultFound"
           /\ resolve_country(State).tx = tx

====
